---------------------------- MODULE Spec2Model ----------------------------
(***************************************************************************)
(* Model of the reconciliation engine of tsut (src/tsut/api.py):           *)
(* SyncUsersAndGroups.sync_users_and_groups, its two assembly helpers, the *)
(* batching loop, the api_call login wrapper and _sync_users_and_groups.   *)
(* The container classes User, Group and UsersAndGroups live in            *)
(* tsut/model.py; their operations are modelled from the specification.    *)
(* Further specifications over the same variables: SpecEnv (runs in any    *)
(* environment), SpecCsv (UGCSVReader.read_from_file of src/tsut/io.py),   *)
(* SpecClient (direct calls of the decorated operations) and SpecRerun     *)
(* (runs that follow one another on one instance).                         *)
(***************************************************************************)
EXTENDS Integers, Sequences, FiniteSets, TLC

VARIABLES
    email_config_json,  \* option: TRUE when a notification config is given
    mails,              \* latest call: the messages it sent, by subject
    log_dir_is,         \* what the path log_dir names: "absent", "directory", "file"
    archive_dir_is,     \* what the path archive_dir names
    operation,          \* client calls: the decorated operation being called
    calls,              \* client calls: the calls made so far and how they ended
    apply_changes,      \* option: False asks the service for a dry run
    changes_dict_orig,  \* latest call: the decoded 200 response, if any
    changes_dicts,      \* latest call: the flattened changes
    warnings,           \* latest call: the warnings it logged
    written,            \* latest call: the files it wrote, name and content
    pc,                 \* position of the run inside sync_users_and_groups
    input,              \* the dataset as the caller supplied it (never changed)
    users_and_groups,   \* the caller's dataset object, mutated by the assembly
    remove_deleted,     \* option
    batch_size,         \* option
    create_groups,      \* option
    merge_groups,       \* option
    cookies,            \* self.cookies: <<>> is None, <<"session">> after login
    existing_ugs,       \* <<>> is None, <<ug>> the dataset returned by the server
    all_users,          \* the working user list of the batching loop
    ug_batch,           \* <<>> or <<ug>>: the dataset handed to _sync_users_and_groups
    batches,            \* every dataset handed to _sync_users_and_groups, in order
    net,                \* every request sent to the remote service, in order
    files,              \* artifacts written by _sync_users_and_groups, in order
    error               \* the exception that ended the run, or NoError

vars == <<email_config_json, mails, log_dir_is, archive_dir_is, operation, calls,
          apply_changes, changes_dict_orig, changes_dicts, warnings, written, pc, input, users_and_groups, remove_deleted, batch_size, create_groups,
          merge_groups, cookies, existing_ugs, all_users, ug_batch, batches, net,
          files, error>>

---------------------------------------------------------------------------
(* Bounds of the input space.                                              *)

MaxUsers == 3
MaxBatch == 2

UserNames == <<"alice", "bob", "carol", "dave", "erin">>
GroupNames == {"Eng", "Sales"}

\* group lists a user of the supplied dataset may carry
RefLists == {<<>>, <<"Eng">>, <<"Eng", "Sales">>}

\* group lists a user of the server's dataset may carry
RemoteRefLists == {<<"Eng">>, <<"Sales">>}

---------------------------------------------------------------------------
(* Entity model (tsut/model.py).                                           *)

User(name, group_names) == [name |-> name, groupNames |-> group_names]

Group(name, display_name, description, group_names) ==
    [name |-> name, displayName |-> display_name, description |-> description,
     groupNames |-> group_names, privileges |-> <<>>]

UsersAndGroups == [users |-> <<>>, groups |-> <<>>]

RAISE_ERROR_ON_DUPLICATE == "RAISE_ERROR_ON_DUPLICATE"
IGNORE_ON_DUPLICATE == "IGNORE_ON_DUPLICATE"
OVERWRITE_ON_DUPLICATE == "OVERWRITE_ON_DUPLICATE"

Range(s) == {s[i] : i \in DOMAIN s}
NamesOf(coll) == {coll[i].name : i \in DOMAIN coll}

\* dict.get(name, None): <<>> is None, <<obj>> the stored object
Lookup(coll, name) ==
    IF name \in NamesOf(coll)
    THEN <<coll[CHOOSE i \in DOMAIN coll : coll[i].name = name]>>
    ELSE <<>>

get_user(ug, name) == Lookup(ug.users, name)
get_group(ug, group_name) == Lookup(ug.groups, group_name)
get_users(ug) == ug.users

\* Adding to an insertion-ordered mapping.  obj is <<>> (None) or <<object>>.
\* The result carries the collection and whether the call raised.
AddToCollection(coll, obj, duplicate) ==
    IF obj = <<>> THEN [coll |-> coll, raised |-> FALSE]
    ELSE IF obj[1].name \notin NamesOf(coll)
         THEN [coll |-> Append(coll, obj[1]), raised |-> FALSE]
    ELSE IF duplicate = IGNORE_ON_DUPLICATE
         THEN [coll |-> coll, raised |-> FALSE]
    ELSE IF duplicate = RAISE_ERROR_ON_DUPLICATE
         THEN [coll |-> coll, raised |-> TRUE]
    ELSE [coll |-> [i \in DOMAIN coll |->
                       IF coll[i].name = obj[1].name THEN obj[1] ELSE coll[i]],
          raised |-> FALSE]

add_user(ug, u, duplicate) ==
    LET r == AddToCollection(ug.users, u, duplicate)
    IN  [ug |-> [ug EXCEPT !.users = r.coll], raised |-> r.raised]

add_group(ug, g, duplicate) ==
    LET r == AddToCollection(ug.groups, g, duplicate)
    IN  [ug |-> [ug EXCEPT !.groups = r.coll], raised |-> r.raised]

\* names reachable from a set of group names through parent references
RECURSIVE Ancestors(_, _, _)
Ancestors(groups, frontier, seen) ==
    LET parents == UNION {Range(groups[i].groupNames) :
                            i \in {j \in DOMAIN groups : groups[j].name \in frontier}}
        fresh == parents \ seen
    IN  IF fresh = {} THEN seen \cup parents
        ELSE Ancestors(groups, fresh, seen \cup parents)

UnknownUserGroups(ug) ==
    UNION {{<<ug.users[i].name, g>> :
               g \in Range(ug.users[i].groupNames) \ NamesOf(ug.groups)} :
           i \in DOMAIN ug.users}

UnknownParentGroups(ug) ==
    UNION {{<<ug.groups[i].name, g>> :
               g \in Range(ug.groups[i].groupNames) \ NamesOf(ug.groups)} :
           i \in DOMAIN ug.groups}

CyclicGroups(ug) ==
    {n \in NamesOf(ug.groups) : n \in Ancestors(ug.groups, {n}, {})}

DuplicateKeys(ug) ==
    {n \in NamesOf(ug.users) : Cardinality({i \in DOMAIN ug.users : ug.users[i].name = n}) > 1}
    \cup
    {n \in NamesOf(ug.groups) : Cardinality({i \in DOMAIN ug.groups : ug.groups[i].name = n}) > 1}

\* is_valid()[0]
is_valid(ug) ==
    /\ UnknownUserGroups(ug) = {}
    /\ UnknownParentGroups(ug) = {}
    /\ CyclicGroups(ug) = {}
    /\ DuplicateKeys(ug) = {}



---------------------------------------------------------------------------
(* Dataset Assembler: __add_all_user_groups and __merge_groups_into_new.   *)

\* a slip: the placeholder built without its display name
ImplicitGroupNoDisplayName(group_name) ==
    Group(group_name, "", "Implicitely created group.", <<>>)

\* the placeholder of an implicitly created group
ImplicitGroup(group_name) ==
    Group(group_name, group_name, "Implicitely created group.", <<>>)

\* new_user_groups: every group name some user of new_ugs carries
NewUserGroups(new_ugs) ==
    UNION {Range(new_ugs.users[i].groupNames) : i \in DOMAIN new_ugs.users}

\* the orders in which a Python set of names may be iterated
IterationOrders(S) == {s \in [1..Cardinality(S) -> S] : Range(s) = S}

\* a slip: the server's group is never consulted, a placeholder is always made
AddUserGroupAlwaysImplicit(acc, original_ugs, group_name) ==
    IF acc.raised \/ get_group(acc.ug, group_name) # <<>> THEN acc
    ELSE add_group(acc.ug, <<ImplicitGroup(group_name)>>, RAISE_ERROR_ON_DUPLICATE)

\* One pass of the loop body for group_name.  acc is [ug, raised]; raised
\* records an AttributeError from calling get_group on None.
AddUserGroup(acc, original_ugs, group_name) ==
    IF acc.raised \/ get_group(acc.ug, group_name) # <<>> THEN acc
    ELSE IF original_ugs = <<>> THEN [acc EXCEPT !.raised = TRUE]
    ELSE LET old_group == get_group(original_ugs[1], group_name)
         IN  IF old_group # <<>>
             THEN add_group(acc.ug, old_group, RAISE_ERROR_ON_DUPLICATE)
             ELSE add_group(acc.ug, <<ImplicitGroup(group_name)>>,
                            RAISE_ERROR_ON_DUPLICATE)

RECURSIVE AddAllUserGroupsLoop(_, _, _)
AddAllUserGroupsLoop(acc, original_ugs, order) ==
    IF order = <<>> THEN acc
    ELSE AddAllUserGroupsLoop(AddUserGroup(acc, original_ugs, Head(order)),
                              original_ugs, Tail(order))

\* __add_all_user_groups(original_ugs, new_ugs), iterating the set in `order`
AddAllUserGroups(original_ugs, new_ugs, order) ==
    AddAllUserGroupsLoop([ug |-> new_ugs, raised |-> FALSE], original_ugs, order)

\* a slip: the server's list is put in front of the supplied one
MergedGroupNamesPrepended(new_user, original_user) ==
    IF original_user # <<>>
    THEN original_user[1].groupNames \o new_user.groupNames
    ELSE new_user.groupNames

\* new_user.groupNames after the body of the merge loop
MergedGroupNames(new_user, original_user) ==
    IF original_user # <<>>
    THEN new_user.groupNames \o original_user[1].groupNames
    ELSE new_user.groupNames

\* __merge_groups_into_new(original_ugs, new_ugs)
MergeGroupsIntoNew(original_ugs, new_ugs) ==
    IF original_ugs = <<>>
    THEN [ug |-> new_ugs, raised |-> new_ugs.users # <<>>]
    ELSE [ug |-> [new_ugs EXCEPT !.users =
                    [i \in DOMAIN new_ugs.users |->
                        [new_ugs.users[i] EXCEPT !.groupNames =
                            MergedGroupNames(new_ugs.users[i],
                                get_user(original_ugs[1], new_ugs.users[i].name))]]],
          raised |-> FALSE]

---------------------------------------------------------------------------
(* Batcher: the loop of sync_users_and_groups.                             *)

Min(a, b) == IF a < b THEN a ELSE b

\* a slip: the slice takes one user more than batch_size
UserBatchOneMore(users, n) == SubSeq(users, 1, Min(n + 1, Len(users)))

\* all_users[:batch_size]
UserBatch(users, n) == SubSeq(users, 1, Min(n, Len(users)))

\* a slip: one user more is deleted than the slice took
AfterDelOneMore(users, n) == SubSeq(users, Min(n + 1, Len(users)) + 1, Len(users))

\* all_users after del all_users[:batch_size]
AfterDel(users, n) == SubSeq(users, Min(n, Len(users)) + 1, Len(users))

\* a slip: only the first group of a user is pulled into the batch
AddFirstGroupOfUser(acc, ug, group_names) ==
    IF group_names = <<>> \/ acc.raised THEN acc
    ELSE add_group(acc.ug, get_group(ug, Head(group_names)), IGNORE_ON_DUPLICATE)

RECURSIVE AddGroupsOfUser(_, _, _)
AddGroupsOfUser(acc, ug, group_names) ==
    IF group_names = <<>> \/ acc.raised THEN acc
    ELSE AddGroupsOfUser(
             add_group(acc.ug, get_group(ug, Head(group_names)), IGNORE_ON_DUPLICATE),
             ug, Tail(group_names))

\* one pass of "for user in user_batch"
AddBatchUser(acc, ug, user) ==
    IF acc.raised THEN acc
    ELSE AddGroupsOfUser(
             add_user(acc.ug, get_user(ug, user.name), RAISE_ERROR_ON_DUPLICATE),
             ug, user.groupNames)

RECURSIVE BatchLoop(_, _, _)
BatchLoop(acc, ug, user_batch) ==
    IF user_batch = <<>> THEN acc
    ELSE BatchLoop(AddBatchUser(acc, ug, Head(user_batch)), ug, Tail(user_batch))

\* a slip: the batch starts from the whole group table of the dataset
UgBatchWithAllGroups(ug, user_batch) ==
    BatchLoop([ug |-> [UsersAndGroups EXCEPT !.groups = ug.groups], raised |-> FALSE],
              ug, user_batch)

\* ug_batch built from user_batch: [ug, raised]
UgBatch(ug, user_batch) ==
    BatchLoop([ug |-> UsersAndGroups, raised |-> FALSE], ug, user_batch)

---------------------------------------------------------------------------
(* The supplied dataset, the server's dataset and the server's answers.    *)

LocalGroup(name, parents) == Group(name, name, "Local", parents)

\* group tables of the supplied dataset: empty, flat, nested, with an
\* undefined parent, and with a nesting cycle
NewGroupTables ==
    { <<>>,
      <<LocalGroup("Eng", <<>>)>>,
      <<LocalGroup("Eng", <<>>), LocalGroup("Sales", <<>>)>>,
      <<LocalGroup("Eng", <<"Sales">>), LocalGroup("Sales", <<>>)>>,
      <<LocalGroup("Eng", <<"Sales">>)>>,
      <<LocalGroup("Eng", <<"Sales">>), LocalGroup("Sales", <<"Eng">>)>> }

\* the group lists each user of the supplied dataset may carry: the first two
\* users range over all of them, the users after them belong to no group
UserRefLists ==
    [alice |-> RefLists, bob |-> RefLists, carol |-> {<<>>}, dave |-> {<<>>},
     erin |-> {<<>>}]

NewUserLists ==
    UNION {{[i \in 1..k |-> User(UserNames[i], refs[i])] :
                refs \in {r \in [1..k -> RefLists] :
                             \A i \in 1..k : r[i] \in UserRefLists[UserNames[i]]}} :
           k \in 0..MaxUsers}

NewDatasets == {[users |-> u, groups |-> g] : u \in NewUserLists, g \in NewGroupTables}

RemoteDisplayName == [Eng |-> "Engineering", Sales |-> "Sales Team"]
RemoteGroup(name) == Group(name, RemoteDisplayName[name], "Regional", <<>>)

RemoteGroupTables ==
    { <<>>, <<RemoteGroup("Sales")>>, <<RemoteGroup("Eng"), RemoteGroup("Sales")>> }

\* datasets the server may return from the list call (all of them valid)
RemoteUserLists == {<<>>} \cup {<<User(UserNames[1], r)>> : r \in RemoteRefLists}

RemoteDatasets ==
    {d \in {[users |-> u, groups |-> g] : u \in RemoteUserLists, g \in RemoteGroupTables} :
        is_valid(d)}

BatchSizes == {-1} \cup (1..MaxBatch)

LoginStatuses == {204, 401}
ListStatuses == {200, 500}
SyncStatuses == {200, 500}

\* an exception: its class, its message and the further arguments it carries
NoError == [type |-> "none", msg |-> "", args |-> <<>>]
Raise(type, msg) == [type |-> type, msg |-> msg, args |-> <<>>]

\* requests.ConnectionError("... (%d)" % response.status_code, response.text)
RaiseWithResponse(type, msg, status, text) ==
    [type |-> type, msg |-> msg, args |-> <<status, text>>]

\* a request and the status of its response; text is response.text of a
\* response that is not a success, status 0 stands for no response at all
Request(op, status, principals, seq) ==
    [op |-> op, status |-> status, principals |-> principals, during |-> seq,
     text |-> ""]

\* response.text of a rejected sync request
RejectionTexts == {"Internal Server Error"}

Artifact(kind, seq) == [kind |-> kind, during |-> seq]

---------------------------------------------------------------------------
(* The run: sync_users_and_groups on a freshly constructed client.         *)

InitRun ==
    /\ pc = "call"
    /\ input \in NewDatasets
    /\ users_and_groups = input
    /\ remove_deleted \in BOOLEAN
    /\ batch_size \in BatchSizes
    /\ create_groups \in BOOLEAN
    /\ merge_groups \in BOOLEAN
    /\ cookies = <<>>
    /\ existing_ugs = <<>>
    /\ all_users = <<>>
    /\ ug_batch = <<>>
    /\ batches = <<>>
    /\ net = <<>>
    /\ files = <<>>
    /\ error = NoError
    /\ apply_changes \in BOOLEAN
    /\ changes_dict_orig = <<>>
    /\ changes_dicts = <<>>
    /\ warnings = <<>>
    /\ written = <<>>
    /\ mails = <<>>

\* a run with the defaults of the environment: no notification config
\* (email_config_json=None) and no log or archive directory yet
Init ==
    /\ InitRun
    /\ email_config_json = FALSE
    /\ log_dir_is = "absent"
    /\ archive_dir_is = "absent"
    /\ operation = "none"
    /\ calls = <<>>

Options == <<input, remove_deleted, batch_size, create_groups, merge_groups,
             apply_changes, email_config_json>>

\* the locals of the latest call of _sync_users_and_groups
Locals == <<changes_dict_orig, changes_dicts, warnings, written, mails>>

\* the log and archive paths
Dirs == <<log_dir_is, archive_dir_is>>

\* the state of direct calls of the decorated operations, untouched by a run
Elsewhere == <<operation, calls>>

\* a call that starts, or that raises with nothing recorded
NothingRecorded ==
    /\ changes_dict_orig' = <<>>
    /\ changes_dicts' = <<>>
    /\ warnings' = <<>>
    /\ written' = <<>>
    /\ mails' = <<>>

\* a slip: the mutual-exclusion test lets batch_size 1 through
ConflictingOptionsOffByOne(rd, bs) == rd /\ bs > 1

\* remove_deleted and batch_size > 0
ConflictingOptions(rd, bs) == rd /\ bs > 0

\* a slip: the server's dataset is fetched for create_groups only
NeedsExistingCreateOnly(cg, mg) == cg

\* (create_groups or merge_groups)
NeedsExisting(cg, mg) == cg \/ mg

is_authenticated == cookies # <<>>

Fail(type, msg) ==
    /\ pc' = "failed"
    /\ error' = Raise(type, msg)

\* Entry of sync_users_and_groups up to the decision to fetch.
CheckOptions ==
    /\ pc = "call"
    /\ IF ConflictingOptions(remove_deleted, batch_size)
       THEN Fail("Exception", "Cannot have remove_deleted True and batch_size > 0")
       ELSE /\ pc' = IF NeedsExisting(create_groups, merge_groups)
                     THEN "get_all" ELSE "assemble"
            /\ error' = error
    /\ UNCHANGED <<Elsewhere, Dirs, Locals, Options, users_and_groups, cookies, existing_ugs, all_users,
                   ug_batch, batches, net, files>>

\* api_call: login() when the client holds no cookies, for either decorated call.
Login ==
    /\ pc \in {"get_all", "sync"}
    /\ ~is_authenticated
    /\ \E status \in LoginStatuses :
          /\ net' = Append(net, Request("login", status, <<>>, Len(batches)))
          /\ IF status = 204
             THEN /\ cookies' = <<"session">>
                  /\ UNCHANGED <<pc, error>>
             ELSE /\ cookies' = cookies
                  /\ Fail("ConnectionError", "Error logging in to TS")
    /\ UNCHANGED <<Elsewhere, Dirs, Locals, Options, users_and_groups, existing_ugs, all_users, ug_batch,
                   batches, files>>

\* get_all_users_and_groups()
GetAllUsersAndGroups ==
    /\ pc = "get_all"
    /\ is_authenticated
    /\ \E status \in ListStatuses :
          /\ net' = Append(net, Request("list", status, <<>>, Len(batches)))
          /\ IF status = 200
             THEN /\ \E auag \in RemoteDatasets : existing_ugs' = <<auag>>
                  /\ pc' = "assemble"
                  /\ error' = error
             ELSE /\ existing_ugs' = existing_ugs
                  /\ Fail("ConnectionError", "Error getting users and groups")
    /\ UNCHANGED <<Elsewhere, Dirs, Locals, Options, users_and_groups, cookies, all_users, ug_batch, batches,
                   files>>

\* lines 333-337: the two assembly policies, in the order of the code
Assembled(original_ugs, new_ugs, cg, mg, order) ==
    LET created == IF cg THEN AddAllUserGroups(original_ugs, new_ugs, order)
                   ELSE [ug |-> new_ugs, raised |-> FALSE]
    IN  IF created.raised \/ ~mg THEN created
        ELSE MergeGroupsIntoNew(original_ugs, created.ug)

Assemble ==
    /\ pc = "assemble"
    /\ \E order \in IterationOrders(NewUserGroups(users_and_groups)) :
          LET r == Assembled(existing_ugs, users_and_groups, create_groups,
                             merge_groups, order)
          IN  /\ users_and_groups' = r.ug
              /\ IF r.raised
                 THEN Fail("AttributeError", "'NoneType' object has no attribute")
                 ELSE /\ pc' = "dispatch"
                      /\ error' = error
    /\ UNCHANGED <<Elsewhere, Dirs, Locals, Options, cookies, existing_ugs, all_users, ug_batch, batches, net,
                   files>>

\* batch_size > 0: all_users = users_and_groups.get_users()
StartBatching ==
    /\ pc = "dispatch"
    /\ batch_size > 0
    /\ all_users' = get_users(users_and_groups)
    /\ pc' = "loop"
    /\ UNCHANGED <<Elsewhere, Dirs, Locals, Options, users_and_groups, cookies, existing_ugs, ug_batch, batches,
                   net, files, error>>

\* a slip: the loop stops while one user is left
LoopContinuesMoreThanOne(users) == Len(users) > 1

\* while len(all_users) > 0
LoopContinues(users) == Len(users) > 0

\* one pass of the while loop up to the call of _sync_users_and_groups
NextBatch ==
    /\ pc = "loop"
    /\ LoopContinues(all_users)
    /\ LET b == UgBatch(users_and_groups, UserBatch(all_users, batch_size))
       IN  /\ all_users' = AfterDel(all_users, batch_size)
           /\ IF b.raised
              THEN /\ Fail("Exception", "Duplicate in collection")
                   /\ UNCHANGED <<ug_batch, batches>>
              ELSE /\ ug_batch' = <<b.ug>>
                   /\ batches' = Append(batches, b.ug)
                   /\ pc' = "sync"
                   /\ error' = error
    /\ NothingRecorded
    /\ UNCHANGED <<Elsewhere, Dirs, Options, users_and_groups, cookies, existing_ugs, net, files>>

\* the while loop ends: sync_users_and_groups returns
EndBatching ==
    /\ pc = "loop"
    /\ ~LoopContinues(all_users)
    /\ pc' = "done"
    /\ UNCHANGED <<Elsewhere, Dirs, Locals, Options, users_and_groups, cookies, existing_ugs, all_users,
                   ug_batch, batches, net, files, error>>

\* batch_size <= 0: the whole dataset is handed to _sync_users_and_groups
SyncAll ==
    /\ pc = "dispatch"
    /\ ~(batch_size > 0)
    /\ ug_batch' = <<users_and_groups>>
    /\ batches' = Append(batches, users_and_groups)
    /\ pc' = "sync"
    /\ UNCHANGED <<Elsewhere, Dirs, Locals, Options, users_and_groups, cookies, existing_ugs, all_users, net,
                   files, error>>

\* a slip: the (bool, violations) tuple itself is tested, which is always true
TupleIsTruthy(ug) == TRUE

\* is_valid = users_and_groups.is_valid(); the test of is_valid[0]
PassesValidation(ug) == is_valid(ug)

FailureSubject == "Failure - Sync with TS"
SuccessSubject == "Success - Sync with TS"

\* a slip: the message goes out whether or not a config was given
SentAlways(configured, subject) == <<subject>>

\* if email_config_json: ... server.sendmail(...)
Sent(configured, subject) == IF configured THEN <<subject>> ELSE <<>>

\* _sync_users_and_groups: is_valid() is false
SyncInvalid ==
    /\ pc = "sync"
    /\ is_authenticated
    /\ ~PassesValidation(ug_batch[1])
    /\ Fail("Exception", "Invalid users and groups")
    /\ changes_dict_orig' = <<>>
    /\ changes_dicts' = <<>>
    /\ warnings' = <<>>
    /\ written' = <<>>
    /\ mails' = Sent(email_config_json, FailureSubject)
    /\ UNCHANGED <<Elsewhere, Dirs, Options, users_and_groups, cookies, existing_ugs, all_users,
                   ug_batch, batches, net, files>>

---------------------------------------------------------------------------
(* The audit recorder: what _sync_users_and_groups derives from a 200      *)
(* response and writes to the log directory.  A Python string that the     *)
(* code builds or takes apart is a sequence of its pieces.                 *)

\* the six buckets the code expects in the response
ExpectedKeys ==
    {<<"users", "Added">>, <<"users", "Updated">>, <<"users", "Deleted">>,
     <<"groups", "Added">>, <<"groups", "Updated">>, <<"groups", "Deleted">>}

Bucket(key, entities) == [key |-> key, entities |-> entities]

\* the six buckets, all empty, in the order the service lists them
EmptyBuckets ==
    <<Bucket(<<"users", "Added">>, <<>>), Bucket(<<"users", "Updated">>, <<>>),
      Bucket(<<"users", "Deleted">>, <<>>), Bucket(<<"groups", "Added">>, <<>>),
      Bucket(<<"groups", "Updated">>, <<>>), Bucket(<<"groups", "Deleted">>, <<>>)>>

\* json.loads(response.text) of a 200 response: the buckets in document order
ResponseBodies ==
    { EmptyBuckets,
      [EmptyBuckets EXCEPT ![1].entities = <<"alice">>],
      <<Bucket(<<"groups", "Deleted">>, <<>>)>>,
      Append([EmptyBuckets EXCEPT ![2].entities = <<"bob", "alice">>,
                                  ![4].entities = <<"Eng">>],
             Bucket(<<"principals", "Skipped">>, <<"carol">>)) }

\* list(changes_dict_orig.keys())
Keys(body) == [i \in DOMAIN body |-> body[i].key]

\* a slip: only extra keys are reported, missing ones are not
KeysUnexpectedExtraOnly(keys) == ~(Range(keys) \subseteq ExpectedKeys)

\* set(keys) != set([...the six...])
KeysUnexpected(keys) == Range(keys) # ExpectedKeys

UnexpectedKeysWarning == "Logging to CSV will fail: JSON response keys are unexpected"

\* 'users' in key
Contains(key, word) == \E i \in DOMAIN key : key[i] = word

\* key.replace('users', '')
Replace(key, word) == SelectSeq(key, LAMBDA piece : piece # word)

\* entity_type and change_type of a key, None as <<>>
EntityType(key) ==
    IF Contains(key, "users") THEN <<"User">>
    ELSE IF Contains(key, "groups") THEN <<"Group">>
    ELSE <<>>

ChangeType(key) ==
    IF Contains(key, "users") THEN <<Replace(key, "users")>>
    ELSE IF Contains(key, "groups") THEN <<Replace(key, "groups")>>
    ELSE <<>>

\* the dict appended to changes_dicts, its items in insertion order
ChangeDict(entity, key, now_str) ==
    << <<"entity", <<entity>> >>, <<"entity_type", EntityType(key)>>,
       <<"change_type", ChangeType(key)>>, <<"timestamp", <<now_str>> >> >>

RECURSIVE ChangesOfBucket(_, _, _)
ChangesOfBucket(entities, key, now_str) ==
    IF entities = <<>> THEN <<>>
    ELSE <<ChangeDict(Head(entities), key, now_str)>>
             \o ChangesOfBucket(Tail(entities), key, now_str)

\* the loop over keys that fills changes_dicts
RECURSIVE Flatten(_, _)
Flatten(body, now_str) ==
    IF body = <<>> THEN <<>>
    ELSE ChangesOfBucket(Head(body).entities, Head(body).key, now_str)
             \o Flatten(Tail(body), now_str)

\* a slip: one change does not count
changes_occurredMoreThanOne(cd) == Len(cd) > 1

\* changes_occurred = len(changes_dicts) > 0
changes_occurred(cd) == Len(cd) > 0

\* the instants of the calls: str(now) and now.strftime('%d%b%y_%H-%M-%S-%f')
ClockStr ==
    <<"2026-11-04 10:00:01.000000", "2026-11-04 10:00:02.000000",
      "2026-11-04 10:00:03.000000", "2026-11-04 10:00:04.000000",
      "2026-11-04 10:00:05.000000", "2026-11-04 10:00:06.000000">>
ClockStrftime ==
    <<"04Nov26_10-00-01-000000", "04Nov26_10-00-02-000000",
      "04Nov26_10-00-03-000000", "04Nov26_10-00-04-000000",
      "04Nov26_10-00-05-000000", "04Nov26_10-00-06-000000">>
now_str(call) == ClockStr[Min(call, Len(ClockStr))]
strftime(call) == ClockStrftime[Min(call, Len(ClockStrftime))]

\* the current_timestamp argument the caller passes to sync_users_and_groups,
\* handed on to every call of _sync_users_and_groups
caller_timestamp == "03Nov26_09-00-00-000000"

\* a slip: the tag marks the runs that apply the changes
current_timestampTagInverted(call, apply) ==
    <<strftime(call)>> \o (IF apply THEN <<"_Test_Mode">> ELSE <<>>)

\* current_timestamp as the log names carry it: the argument is overwritten
\* with now.strftime(...) before any name is built
current_timestamp(call, apply) ==
    <<strftime(call)>> \o (IF ~apply THEN <<"_Test_Mode">> ELSE <<>>)

log_dir == "logs/"

log_file_name_no_ext(cd, timestamp) ==
    <<log_dir, "changes_">> \o timestamp
        \o (IF ~changes_occurred(cd) THEN <<"_NO_CHANGE">> ELSE <<>>)

csv_log_file_name(cd, timestamp) == log_file_name_no_ext(cd, timestamp) \o <<".csv">>
json_log_file_name(cd, timestamp) == log_file_name_no_ext(cd, timestamp) \o <<".json">>
sent_user_csv_filename(timestamp) ==
    <<log_dir, "sent_user_data", "_">> \o timestamp \o <<".csv">>
failed_sync_file_name(timestamp) ==
    <<log_dir, "users_and_groups_failed_sync_">> \o timestamp \o <<".json">>

\* csv.DictWriter: the field names are the keys of the first dict, a row
\* holds the values of a dict under the field names, None as ''
fieldnames(cd) == [i \in DOMAIN cd[1] |-> cd[1][i][1]]
ValueOf(dict, key) == CHOOSE i \in DOMAIN dict : dict[i][1] = key
CsvCell(value) == IF value = <<>> THEN "" ELSE value[1]
CsvRow(names, dict) ==
    [i \in DOMAIN names |-> CsvCell(dict[ValueOf(dict, names[i])][2])]

\* a slip: the header is left out
CsvLogNoHeader(cd) ==
    IF changes_occurred(cd)
    THEN [i \in DOMAIN cd |-> CsvRow(fieldnames(cd), cd[i])]
    ELSE <<>>

\* the lines of the CSV log: nothing is written when there is no change
CsvLog(cd) ==
    IF changes_occurred(cd)
    THEN <<fieldnames(cd)>> \o [i \in DOMAIN cd |-> CsvRow(fieldnames(cd), cd[i])]
    ELSE <<>>

\* str(x.encode("utf-8")): the text of a bytes literal
BytesRepr(x) == <<"b'", x, "'">>

\* users_and_groups.to_json(): the principals as the service lists them
to_json(ug) ==
    [i \in DOMAIN ug.users |->
        [principalTypeEnum |-> "LOCAL_USER", name |-> ug.users[i].name,
         groupNames |-> ug.users[i].groupNames]]
    \o [i \in DOMAIN ug.groups |->
        [principalTypeEnum |-> "LOCAL_GROUP", name |-> ug.groups[i].name,
         displayName |-> ug.groups[i].displayName,
         description |-> ug.groups[i].description,
         groupNames |-> ug.groups[i].groupNames]]

File(kind, name, content) == [kind |-> kind, name |-> name, content |-> content]

\* the files a call writes after a 200 response
SuccessFiles(ug, body, cd, timestamp) ==
    <<File("changes_csv", csv_log_file_name(cd, timestamp), CsvLog(cd)),
      File("changes_json", json_log_file_name(cd, timestamp), BytesRepr(body)),
      File("sent_data_csv", sent_user_csv_filename(timestamp), ug)>>

\* the file a call writes after a response that is not 200
FailureFiles(ug, text, timestamp) ==
    <<File("failed_sync_json", failed_sync_file_name(timestamp),
           BytesRepr(to_json(ug)))>>

\* open(csv_log_file_name, 'w'): the file is opened, or OSError is raised
FileSystemOutcomes == {"ok", "PermissionError"}

DirStates == {"absent", "directory", "file"}

\* AttributeError of logging.warn(...).format(...): logging.warn returns None
NoneHasNoFormat == "'NoneType' object has no attribute 'format'"

\* try: os.makedirs(dir) except FileExistsError: ... -- what the path names
\* afterwards and whether the handler raised
MakeDirs(dir_is) ==
    IF dir_is = "file" THEN [is |-> "file", raised |-> TRUE]
    ELSE [is |-> "directory", raised |-> FALSE]

---------------------------------------------------------------------------
\* a slip: a rejected request is posted again
PcAfterSyncRetrying(status, bs) ==
    IF status = 200 THEN (IF bs > 0 THEN "loop" ELSE "done") ELSE "sync"

\* a slip: the rejection is swallowed and the loop goes on
PcAfterSyncSwallowing(status, bs) == IF bs > 0 THEN "loop" ELSE "done"

\* a slip: the call is repeated after a success
PcAfterSyncRepeating(status, bs) == IF status = 200 THEN "sync" ELSE "failed"

\* where the run continues after the response: _sync_users_and_groups returns
\* into the loop (or to the caller), or raises
PcAfterSync(status, bs) ==
    IF status = 200 THEN (IF bs > 0 THEN "loop" ELSE "done") ELSE "failed"

\* _sync_users_and_groups: the dataset is valid and is posted
SyncPost ==
    /\ pc = "sync"
    /\ is_authenticated
    /\ PassesValidation(ug_batch[1])
    /\ \E status \in SyncStatuses, text \in RejectionTexts,
          body \in ResponseBodies, fs \in FileSystemOutcomes :
          LET call == Len(batches)
              timestamp == current_timestamp(call, apply_changes)
              cd == Flatten(body, now_str(call))
              log == MakeDirs(log_dir_is)
              archive == MakeDirs(archive_dir_is)
          IN  \* a rejection has no buckets and opens no change log
              /\ status # 200 => (body = EmptyBuckets /\ fs = "ok")
              /\ net' = Append(net, [Request("sync", status, ug_batch, call)
                                        EXCEPT !.text = IF status = 200 THEN "" ELSE text])
              /\ IF log.raised
                 THEN \* lines 501-506, whatever the status
                      /\ NothingRecorded
                      /\ UNCHANGED <<files, Dirs>>
                      /\ Fail("AttributeError", NoneHasNoFormat)
                 ELSE IF status = 200 /\ archive.raised
                 THEN \* lines 568-573
                      /\ NothingRecorded
                      /\ log_dir_is' = log.is
                      /\ UNCHANGED <<files, archive_dir_is>>
                      /\ Fail("AttributeError", NoneHasNoFormat)
                 ELSE IF status = 200 /\ fs = "ok"
                 THEN /\ changes_dict_orig' = <<body>>
                      /\ changes_dicts' = cd
                      /\ warnings' = IF KeysUnexpected(Keys(body))
                                     THEN <<UnexpectedKeysWarning>> ELSE <<>>
                      /\ written' = SuccessFiles(ug_batch[1], body, cd, timestamp)
                      /\ files' = files \o <<Artifact("changes_csv", call),
                                             Artifact("changes_json", call),
                                             Artifact("sent_data_csv", call)>>
                      /\ mails' = Sent(email_config_json, SuccessSubject)
                      /\ log_dir_is' = log.is
                      /\ archive_dir_is' = archive.is
                      /\ pc' = PcAfterSync(status, batch_size)
                      /\ error' = error
                 ELSE IF status = 200
                 THEN \* open(csv_log_file_name, 'w') raises and nothing catches it
                      /\ NothingRecorded
                      /\ files' = files
                      /\ log_dir_is' = log.is
                      /\ archive_dir_is' = archive.is
                      /\ Fail(fs, "Permission denied")
                 ELSE /\ changes_dict_orig' = <<>>
                      /\ changes_dicts' = <<>>
                      /\ warnings' = <<>>
                      /\ mails' = Sent(email_config_json, FailureSubject)
                      /\ written' = FailureFiles(ug_batch[1], text, timestamp)
                      /\ files' = Append(files, Artifact("failed_sync_json", call))
                      /\ log_dir_is' = log.is
                      /\ archive_dir_is' = archive_dir_is
                      /\ pc' = PcAfterSync(status, batch_size)
                      /\ error' = RaiseWithResponse("ConnectionError",
                                     "Error syncing users and groups", status, text)
    /\ UNCHANGED <<Elsewhere, Options, users_and_groups, cookies, existing_ugs, all_users,
                   ug_batch, batches>>

\* session.post raises: the connection fails before any response arrives
SyncTransportError ==
    /\ pc = "sync"
    /\ is_authenticated
    /\ PassesValidation(ug_batch[1])
    /\ net' = Append(net, Request("sync", 0, ug_batch, Len(batches)))
    /\ Fail("ConnectionError", "Connection aborted")
    /\ NothingRecorded
    /\ UNCHANGED <<Elsewhere, Dirs, Options, users_and_groups, cookies, existing_ugs, all_users,
                   ug_batch, batches, files>>

Next ==
    \/ CheckOptions
    \/ Login
    \/ GetAllUsersAndGroups
    \/ Assemble
    \/ StartBatching
    \/ NextBatch
    \/ EndBatching
    \/ SyncAll
    \/ SyncInvalid
    \/ SyncPost
    \/ SyncTransportError

Spec == Init /\ [][Next]_vars

\* runs without merge_groups on a dataset of at most one user and one group,
\* in every environment: with or without a notification config, the log and
\* archive paths absent, a directory or a regular file
InitEnv ==
    /\ InitRun
    /\ Len(input.users) <= 1
    /\ Len(input.groups) <= 1
    /\ ~merge_groups
    /\ email_config_json \in BOOLEAN
    /\ log_dir_is \in DirStates
    /\ archive_dir_is \in DirStates
    /\ operation = "none"
    /\ calls = <<>>

SpecEnv == InitEnv /\ [][Next]_vars

---------------------------------------------------------------------------
(* Vocabulary of the properties.                                           *)

\* the failure kinds of the error taxonomy, by the raise that produced them
Kind(e) ==
    CASE e.msg = "Cannot have remove_deleted True and batch_size > 0" -> "ConfigurationError"
      [] e.msg = "Invalid users and groups" -> "InvalidDataset"
      [] e.msg = "Error syncing users and groups" -> "RemoteRejected"
      [] e.msg \in {"Error logging in to TS", "Error getting users and groups",
                    "Connection aborted"}
            -> "TransportError"
      [] e.type = "PermissionError" -> "PersistenceError"
      [] OTHER -> e.type

\* the assembly phase is over
AssemblyDone == pc \in {"dispatch", "loop", "sync", "done"} \/ batches # <<>>

\* the batching loop has been entered
BatchingStarted == batch_size > 0 /\ (pc \in {"loop", "sync", "done"} \/ batches # <<>>)

RECURSIVE ConcatUsers(_)
ConcatUsers(bs) == IF bs = <<>> THEN <<>> ELSE Head(bs).users \o ConcatUsers(Tail(bs))

\* the datasets posted to the sync endpoint, in order
RECURSIVE Posted(_)
Posted(reqs) ==
    IF reqs = <<>> THEN <<>>
    ELSE IF Head(reqs).op = "sync" THEN Head(reqs).principals \o Posted(Tail(reqs))
    ELSE Posted(Tail(reqs))

Occurrences(coll, name) == Cardinality({i \in DOMAIN coll : coll[i].name = name})

---------------------------------------------------------------------------
(* C1: with remove_deleted true and batch_size > 0 the call fails with the *)
(* configuration error before any request (login, list or sync) is sent,   *)
(* whatever the dataset and the other options are.                         *)
C1_ConflictFailsBeforeNetwork ==
    (remove_deleted /\ batch_size > 0 /\ pc # "call") =>
        /\ pc = "failed"
        /\ Kind(error) = "ConfigurationError"
        /\ error.type = "Exception"
        /\ net = <<>>
        /\ batches = <<>>
        /\ files = <<>>
        /\ users_and_groups = input

C1_Witness ==
    /\ remove_deleted /\ batch_size > 0 /\ create_groups /\ merge_groups
    /\ input.users # <<>>
    /\ pc = "failed"

(* C2: in a batched run the users of the batches built so far, followed by *)
(* the working list, are the dataset's user list; when the loop ends the   *)
(* working list is empty and the posted batches, concatenated in order,    *)
(* reproduce the dataset's user list, each user exactly once.              *)
C2_BatchesPartitionUsers ==
    BatchingStarted =>
        /\ ConcatUsers(batches) \o all_users = users_and_groups.users
        /\ pc = "done" =>
              /\ all_users = <<>>
              /\ Posted(net) = batches
              /\ ConcatUsers(Posted(net)) = users_and_groups.users
              /\ \A n \in NamesOf(users_and_groups.users) :
                    Occurrences(ConcatUsers(Posted(net)), n) = 1

C2_Witness ==
    /\ batch_size = 2 /\ pc = "done"
    /\ Len(batches) = 2
    /\ Len(users_and_groups.users) = 3
    /\ merge_groups
    /\ users_and_groups.users # input.users

(* C3: every group a user of a batch names, and the dataset defines, is in *)
(* that batch's group table exactly once and is the dataset's group; every *)
(* batch that was posted holds every group its users name.                 *)
C3_BatchHoldsReferencedGroups ==
    BatchingStarted =>
        /\ \A k \in DOMAIN batches : \A i \in DOMAIN batches[k].users :
              \A g \in Range(batches[k].users[i].groupNames) :
                  g \in NamesOf(users_and_groups.groups) =>
                      /\ Occurrences(batches[k].groups, g) = 1
                      /\ get_group(batches[k], g) = get_group(users_and_groups, g)
        /\ \A k \in DOMAIN Posted(net) :
              UnknownUserGroups(Posted(net)[k]) = {}

C3_Witness ==
    /\ batch_size = 2
    /\ Len(Posted(net)) >= 1
    /\ Len(Posted(net)[1].users) = 2
    /\ \A i \in 1..2 : Posted(net)[1].users[i].groupNames = <<"Eng", "Sales">>
    /\ Len(Posted(net)[1].groups) = 2

(* C4: every batch handed to the submission holds at least one and at most *)
(* batch_size users.                                                       *)
C4_BatchSizeBounds ==
    BatchingStarted =>
        \A k \in DOMAIN batches :
            /\ Len(batches[k].users) >= 1
            /\ Len(batches[k].users) <= batch_size

C4_Witness ==
    /\ batch_size = 2
    /\ Len(Posted(net)) = 2
    /\ Len(Posted(net)[1].users) = 2
    /\ Len(Posted(net)[2].users) = 1

(* C5: after the assembly phase the dataset is self-consistent for any    *)
(* enabled combination of the two policies: every group name carried by a  *)
(* user resolves to a group of the dataset's group table.  Stated for the  *)
(* combinations that include implicit group creation, which is the policy  *)
(* that adds the missing groups.                                           *)
C5_SelfConsistentAfterAssembly ==
    (AssemblyDone /\ create_groups) => UnknownUserGroups(users_and_groups) = {}

(* C6: a group named by a user of the supplied dataset, absent from its    *)
(* group table and present in the server's dataset, is in the dataset      *)
(* after assembly with the server's attributes unchanged; a group of the   *)
(* supplied group table is never replaced.                                 *)
C6_ExistingGroupCopied ==
    (AssemblyDone /\ create_groups) =>
        /\ \A g \in NewUserGroups(input) \ NamesOf(input.groups) :
              get_group(existing_ugs[1], g) # <<>> =>
                  get_group(users_and_groups, g) = get_group(existing_ugs[1], g)
        /\ \A g \in NamesOf(input.groups) :
              /\ get_group(users_and_groups, g) = get_group(input, g)
              /\ Occurrences(users_and_groups.groups, g) = 1

C6_Witness ==
    /\ AssemblyDone /\ create_groups
    /\ get_group(input, "Eng") # <<>>
    /\ get_group(input, "Sales") = <<>>
    /\ get_group(existing_ugs[1], "Eng") # <<>>
    /\ get_group(users_and_groups, "Eng")[1].description = "Local"
    /\ get_group(users_and_groups, "Sales") # <<>>
    /\ get_group(users_and_groups, "Sales")[1].description = "Regional"
    /\ get_group(users_and_groups, "Sales")[1].displayName = "Sales Team"

(* C7 as stated: the placeholder of a group that neither dataset defines   *)
(* has the description "implicitly created group".                         *)
C7_PlaceholderAsStated ==
    (AssemblyDone /\ create_groups) =>
        \A g \in NewUserGroups(input) \ NamesOf(input.groups) :
            get_group(existing_ugs[1], g) = <<>> =>
                /\ get_group(users_and_groups, g) # <<>>
                /\ get_group(users_and_groups, g)[1].displayName = g
                /\ get_group(users_and_groups, g)[1].description = "implicitly created group"
                /\ get_group(users_and_groups, g)[1].privileges = <<>>

(* C7 amended: the placeholder has displayName equal to the name, the      *)
(* description "Implicitely created group." as the code spells it, no      *)
(* parent groups and no privileges.                                        *)
C7_PlaceholderAdded ==
    (AssemblyDone /\ create_groups) =>
        \A g \in NewUserGroups(input) \ NamesOf(input.groups) :
            get_group(existing_ugs[1], g) = <<>> =>
                /\ Occurrences(users_and_groups.groups, g) = 1
                /\ get_group(users_and_groups, g)[1].displayName = g
                /\ get_group(users_and_groups, g)[1].description = "Implicitely created group."
                /\ get_group(users_and_groups, g)[1].groupNames = <<>>
                /\ get_group(users_and_groups, g)[1].privileges = <<>>

C7_Witness ==
    /\ AssemblyDone /\ create_groups
    /\ input.groups = <<>>
    /\ NamesOf(existing_ugs[1].groups) = {"Sales"}
    /\ NamesOf(users_and_groups.groups) = {"Eng", "Sales"}
    /\ get_group(users_and_groups, "Eng")[1].displayName = "Eng"

(* C8: after the merge a user present in both datasets carries the list it *)
(* was supplied with followed by the server's list, duplicates kept; a     *)
(* user the server does not know keeps its list.                           *)
C8_MergeAppendsOriginalGroups ==
    (AssemblyDone /\ merge_groups) =>
        /\ Len(users_and_groups.users) = Len(input.users)
        /\ \A i \in DOMAIN input.users :
              LET original_user == get_user(existing_ugs[1], input.users[i].name)
              IN  /\ users_and_groups.users[i].name = input.users[i].name
                  /\ users_and_groups.users[i].groupNames =
                        IF original_user = <<>> THEN input.users[i].groupNames
                        ELSE input.users[i].groupNames \o original_user[1].groupNames

C8_Witness ==
    /\ AssemblyDone /\ merge_groups
    /\ Len(input.users) = 2
    /\ input.users[1].groupNames = <<"Eng", "Sales">>
    /\ get_user(existing_ugs[1], input.users[1].name) # <<>>
    /\ users_and_groups.users[1].groupNames = <<"Eng", "Sales", "Sales">>
    /\ get_user(existing_ugs[1], input.users[2].name) = <<>>
    /\ input.users[2].groupNames = <<"Eng">>
    /\ users_and_groups.users[2].groupNames = <<"Eng">>

\* a policy was requested, the options were accepted, and no original
\* dataset is at hand
PolicyWithoutOriginal ==
    /\ create_groups \/ merge_groups
    /\ ~(remove_deleted /\ batch_size > 0)
    /\ pc # "call"
    /\ existing_ugs = <<>>

(* C9 as stated: when a policy is requested and no original dataset is     *)
(* available the run fails with a PreconditionError.                       *)
C9_PreconditionErrorAsStated ==
    (PolicyWithoutOriginal /\ pc = "failed") => Kind(error) = "PreconditionError"

(* C9 amended: a requested policy always has the server's dataset fetched  *)
(* first; when the fetch fails (login or list call rejected) the run ends  *)
(* with that call's ConnectionError, the dataset is left as supplied and   *)
(* nothing is submitted.                                                   *)
C9_FetchFailureEndsRun ==
    (PolicyWithoutOriginal /\ pc # "get_all") =>
        /\ pc = "failed"
        /\ error.type = "ConnectionError"
        /\ Kind(error) = "TransportError"
        /\ Posted(net) = <<>>
        /\ batches = <<>>
        /\ files = <<>>
        /\ users_and_groups = input

C9_Witness ==
    /\ merge_groups /\ ~create_groups
    /\ existing_ugs = <<>>
    /\ pc = "failed"
    /\ Len(net) = 2
    /\ net[2].op = "list"
    /\ net[2].status = 500
    /\ input.users # <<>>

---------------------------------------------------------------------------
\* the sync requests of the run, in order
RECURSIVE SyncRequests(_)
SyncRequests(reqs) ==
    IF reqs = <<>> THEN <<>>
    ELSE IF Head(reqs).op = "sync" THEN <<Head(reqs)>> \o SyncRequests(Tail(reqs))
    ELSE SyncRequests(Tail(reqs))

(* C11: an invalid dataset is fatal to the whole run with no partial       *)
(* submission: when a run, batched or not, ends as InvalidDataset, no      *)
(* batch of that run has been submitted to the remote service.             *)
C11_InvalidMeansNothingSubmitted ==
    Kind(error) = "InvalidDataset" => Posted(net) = <<>>

(* C12: a sync request that is answered with a non-success status is not   *)
(* repeated: no dataset or batch is posted twice in a run, the run fails   *)
(* at once, and the error raised is the sync ConnectionError carrying the  *)
(* status code and the response text.                                      *)
C12_RejectedNotRetried ==
    /\ \A i, j \in DOMAIN net :
          (net[i].op = "sync" /\ net[j].op = "sync" /\ net[i].during = net[j].during)
              => i = j
    /\ \A i \in DOMAIN net :
          (net[i].op = "sync" /\ net[i].status \notin {200, 0}) =>
              /\ i = Len(net)
              /\ pc = "failed"
              /\ Kind(error) = "RemoteRejected"
              /\ error.type = "ConnectionError"
              /\ error.args = <<net[i].status, net[i].text>>

C12_Witness ==
    /\ pc = "failed"
    /\ batch_size = 1
    /\ Len(SyncRequests(net)) = 2
    /\ SyncRequests(net)[1].status = 200
    /\ SyncRequests(net)[2].status = 500
    /\ error.args = <<500, "Internal Server Error">>

(* C13: in a batched run a batch that is rejected or fails in transport    *)
(* ends the run: it is the last request of the run, so nothing is sent to  *)
(* undo the batches before it, which were all answered with 200, and no    *)
(* later batch is built or submitted.                                      *)
C13_AbortAtFailedBatch ==
    (batch_size > 0) =>
        \A i \in DOMAIN net :
            (net[i].op = "sync" /\ net[i].status # 200) =>
                /\ pc = "failed"
                /\ Kind(error) \in {"RemoteRejected", "TransportError"}
                /\ i = Len(net)
                /\ net[i].during = Len(batches)
                /\ \A j \in 1..(i - 1) :
                      net[j].op = "sync" => net[j].status = 200
                /\ Len(SyncRequests(net)) = Len(batches)
                /\ \A k \in 1..(Len(batches) - 1) :
                      SyncRequests(net)[k].principals = <<batches[k]>>

C13_Witness ==
    /\ batch_size = 1
    /\ Len(users_and_groups.users) = 3
    /\ pc = "failed"
    /\ Len(batches) = 2
    /\ Len(all_users) = 1
    /\ Len(SyncRequests(net)) = 2
    /\ SyncRequests(net)[1].status = 200
    /\ SyncRequests(net)[2].status = 0

(* C14: one sync request per batch (one for the whole dataset when the run *)
(* is not batched), in the order of the batches, each one sent only after  *)
(* the one before it was answered with 200 and its logs were written.      *)
C14_OneRequestPerBatchInOrder ==
    /\ Len(SyncRequests(net)) <= Len(batches)
    /\ Len(batches) <= Len(SyncRequests(net)) + 1
    /\ pc \in {"loop", "done"} => Len(SyncRequests(net)) = Len(batches)
    /\ ~(batch_size > 0) => Len(batches) <= 1
    /\ \A k \in DOMAIN SyncRequests(net) :
          /\ SyncRequests(net)[k].during = k
          /\ k <= Len(batches) => SyncRequests(net)[k].principals = <<batches[k]>>
          /\ k > 1 =>
                /\ SyncRequests(net)[k - 1].status = 200
                /\ \E f \in DOMAIN files :
                      files[f] = Artifact("changes_json", k - 1)

C14_Witness ==
    /\ batch_size = 1
    /\ pc = "done"
    /\ Len(SyncRequests(net)) = 3
    /\ Len(files) = 9

---------------------------------------------------------------------------
(* Vocabulary of the audit properties.                                     *)

\* the latest call was answered with 200 and wrote its logs
Recorded == changes_dict_orig # <<>>

\* the entities the buckets of a response list, in document order
RECURSIVE EntitiesOf(_)
EntitiesOf(body) ==
    IF body = <<>> THEN <<>> ELSE Head(body).entities \o EntitiesOf(Tail(body))

\* the buckets of a response that carry one of the six expected keys
ExpectedBuckets(body) == SelectSeq(body, LAMBDA b : b.key \in ExpectedKeys)

\* the file of a kind among the files the latest call wrote
WrittenFile(kind) == written[CHOOSE i \in DOMAIN written : written[i].kind = kind]
Wrote(kind) == \E i \in DOMAIN written : written[i].kind = kind

\* a file name carries a tag
HasTag(name, tag) == \E i \in DOMAIN name : name[i] = tag

CsvHeader == <<"entity", "entity_type", "change_type", "timestamp">>

(* C15: after a 200 response the change-log names carry _NO_CHANGE exactly *)
(* when the flattened change sequence is empty, that is when every bucket  *)
(* of the response is empty, and such a response is a success.             *)
C15_NoChangeTagIffNoChanges ==
    Recorded =>
        /\ Len(changes_dicts) = Len(EntitiesOf(changes_dict_orig[1]))
        /\ \A kind \in {"changes_csv", "changes_json"} :
              /\ Wrote(kind)
              /\ HasTag(WrittenFile(kind).name, "_NO_CHANGE") <=> (changes_dicts = <<>>)
        /\ EntitiesOf(changes_dict_orig[1]) = <<>> =>
              (pc \in {"loop", "done"} /\ error = NoError)

C15_Witness ==
    /\ changes_dict_orig = <<EmptyBuckets>>
    /\ pc = "done"
    /\ HasTag(WrittenFile("changes_csv").name, "_NO_CHANGE")

(* C16: a dry run (apply_changes false) answered with usersAdded = [alice] *)
(* and all other buckets empty writes a CSV log with exactly one data row, *)
(* (alice, User, Added, timestamp); the names of the files a call writes   *)
(* carry _Test_Mode exactly when apply_changes is false.                   *)
C16_DryRunRowAndTag ==
    /\ \A i \in DOMAIN written :
          HasTag(written[i].name, "_Test_Mode") <=> ~apply_changes
    /\ (~apply_changes /\ Recorded
          /\ changes_dict_orig[1] = [EmptyBuckets EXCEPT ![1].entities = <<"alice">>]) =>
            /\ Wrote("changes_csv")
            /\ Tail(WrittenFile("changes_csv").content)
                  = << <<"alice", "User", <<"Added">>, now_str(Len(batches))>> >>
            /\ ~HasTag(WrittenFile("changes_csv").name, "_NO_CHANGE")

C16_Witness ==
    /\ ~apply_changes
    /\ pc = "done"
    /\ changes_dict_orig = <<[EmptyBuckets EXCEPT ![1].entities = <<"alice">>]>>
    /\ Len(WrittenFile("changes_csv").content) = 2

(* C17 as stated: the CSV log written after a 200 response is a header row *)
(* followed by one row per flattened change, header-only when there is no  *)
(* change.                                                                 *)
C17_HeaderAlways ==
    Recorded =>
        /\ Wrote("changes_csv")
        /\ WrittenFile("changes_csv").content # <<>>
        /\ Head(WrittenFile("changes_csv").content) = CsvHeader
        /\ Len(WrittenFile("changes_csv").content) = 1 + Len(changes_dicts)

(* C17 amended: when changes occurred the CSV log is the header row        *)
(* entity, entity_type, change_type, timestamp followed by one row per     *)
(* flattened change in order; when no change occurred the file is created  *)
(* empty, with no header row and no data row.                              *)
C17_HeaderOnlyWithChanges ==
    Recorded =>
        /\ Wrote("changes_csv")
        /\ LET content == WrittenFile("changes_csv").content
               entities == EntitiesOf(changes_dict_orig[1])
           IN  IF entities = <<>>
               THEN content = <<>>
               ELSE /\ Head(content) = CsvHeader
                    /\ Len(content) = 1 + Len(entities)
                    /\ \A i \in DOMAIN entities :
                          /\ content[i + 1][1] = entities[i]
                          /\ content[i + 1][4] = now_str(Len(batches))

C17_Witness ==
    /\ Recorded
    /\ pc = "done"
    /\ Len(WrittenFile("changes_csv").content) = 5
    /\ WrittenFile("changes_csv").content[2][1] = "bob"
    /\ WrittenFile("changes_csv").content[3][1] = "alice"
    /\ WrittenFile("changes_csv").content[4][1] = "Eng"

(* C18: a 200 response whose keys are not exactly the six expected ones    *)
(* (one too many or one missing) makes the call log a warning and still    *)
(* succeed: the logs are written and the entities of the expected buckets  *)
(* that are present are the rows with an entity type, in order; a missing  *)
(* key contributes no row.  A response with exactly the six keys logs no   *)
(* warning.                                                                *)
C18_DriftWarnsAndSucceeds ==
    Recorded =>
        LET body == changes_dict_orig[1]
            typed == SelectSeq(changes_dicts, LAMBDA d : d[2][2] # <<>>)
        IN  /\ (warnings # <<>>) <=> (Range(Keys(body)) # ExpectedKeys)
            /\ Range(Keys(body)) # ExpectedKeys =>
                  /\ warnings = <<UnexpectedKeysWarning>>
                  /\ pc \in {"loop", "done"}
                  /\ error = NoError
                  /\ Wrote("changes_csv") /\ Wrote("changes_json")
                  /\ [i \in DOMAIN typed |-> typed[i][1][2][1]]
                        = EntitiesOf(ExpectedBuckets(body))
                  /\ Len(changes_dicts) = Len(EntitiesOf(body))

C18_Witness ==
    /\ Recorded
    /\ pc = "done"
    /\ Len(changes_dict_orig[1]) = 7
    /\ warnings = <<UnexpectedKeysWarning>>
    /\ Len(WrittenFile("changes_csv").content) = 5
    /\ WrittenFile("changes_csv").content[5] = <<"carol", "", "", now_str(1)>>

(* C19: a file-system error raised while the audit files are written       *)
(* after a 200 response does not fail the run.                             *)
C19_LogErrorKeepsSuccess ==
    ~(pc = "failed" /\ Kind(error) = "PersistenceError")

(* C20: a submission that fails, because the dataset is invalid or because *)
(* the service rejects it, has written a failure record holding the JSON   *)
(* of the dataset that was attempted.                                      *)
C20_FailureRecordOnEveryFailure ==
    (pc = "failed" /\ Kind(error) \in {"InvalidDataset", "RemoteRejected"}) =>
        /\ Wrote("failed_sync_json")
        /\ WrittenFile("failed_sync_json").content = BytesRepr(to_json(ug_batch[1]))

---------------------------------------------------------------------------
(* C21: the names of the audit files a submission writes carry the         *)
(* timestamp the caller supplied in current_timestamp, so the batches of   *)
(* one run carry the same timestamp in their names.                        *)
C21_NamesCarryCallerTimestamp ==
    \A i \in DOMAIN written : HasTag(written[i].name, caller_timestamp)

---------------------------------------------------------------------------
\* the group names the users of a list name directly
DirectReferences(users) == UNION {Range(users[i].groupNames) : i \in DOMAIN users}

(* C28: in a batched run the group table of every batch holds exactly the  *)
(* groups of the dataset that the users of the batch name directly: no     *)
(* group that no user of the batch names, and no parent group that only    *)
(* another group names.                                                    *)
C28_BatchGroupsAreDirectReferences ==
    (batch_size > 0) =>
        \A k \in DOMAIN batches :
            /\ NamesOf(batches[k].groups)
                  = {g \in DirectReferences(batches[k].users) :
                        get_group(users_and_groups, g) # <<>>}
            /\ \A i \in DOMAIN batches[k].groups :
                  <<batches[k].groups[i]>>
                      = get_group(users_and_groups, batches[k].groups[i].name)

C28_Witness ==
    /\ batch_size > 0
    /\ Len(batches) = 1
    /\ batches[1].users # <<>>
    /\ NamesOf(batches[1].groups) = {"Eng"}
    /\ batches[1].groups[1].groupNames = <<"Sales">>
    /\ get_group(users_and_groups, "Sales") # <<>>

Ceil(u, n) == (u + n - 1) \div n

(* C29: a run that ends without error has sent, when batch_size > 0,       *)
(* ceil(u / batch_size) sync requests for the u users of the dataset, so   *)
(* none and no audit file when there is no user, and exactly one when      *)
(* batch_size <= 0, users or not.                                          *)
C29_RequestCount ==
    (pc = "done") =>
        IF batch_size > 0
        THEN /\ Len(SyncRequests(net))
                   = Ceil(Len(users_and_groups.users), batch_size)
             /\ users_and_groups.users = <<>> =>
                   (SyncRequests(net) = <<>> /\ files = <<>> /\ written = <<>>)
        ELSE Len(SyncRequests(net)) = 1

C29_Witness ==
    /\ pc = "done"
    /\ batch_size = 2
    /\ Len(users_and_groups.users) = 3
    /\ Len(SyncRequests(net)) = 2

---------------------------------------------------------------------------
\* a call of _sync_users_and_groups has got past the login of its wrapper
\* and has ended
SubmissionEnded ==
    /\ batches # <<>>
    /\ pc \in {"loop", "done", "failed"}
    /\ pc = "failed" => error.msg \notin {"Error logging in to TS", "Duplicate in collection"}

C26_FileAsDirTolerated ==
    ((log_dir_is = "file" \/ archive_dir_is = "file")
        /\ SyncRequests(net) # <<>>
        /\ Len(SyncRequests(net)) = Len(batches)
        /\ SyncRequests(net)[Len(batches)].status = 200)
    => (error.type # "AttributeError" /\ (error = NoError => Wrote("changes_csv")))


---------------------------------------------------------------------------
(* UGCSVReader.read_from_file (src/tsut/io.py): the user file and the      *)
(* optional group file are read row by row into a fresh UsersAndGroups.    *)

MaxLines == 2

\* the Groups cells a row may carry: blank, an empty list, a list of one name
GroupsCells == {"", "[]", "['Eng']"}

\* csv.DictReader: the header's columns, with or without the Name column
Headers == {{"Name", "Groups"}, {"Groups"}}

CsvLine(name, groups) == [Name |-> name, Groups |-> groups]

\* the rows of a file; row i names the i-th entity
CsvRows(names) ==
    UNION {{[i \in 1..n |-> CsvLine(names[i], cells[i])] :
               cells \in [1..n -> GroupsCells]} : n \in 0..MaxLines}

CsvFiles(names) ==
    {[columns |-> h, rows |-> r] : h \in Headers, r \in CsvRows(names)}

CsvGroupNames == <<"Eng", "Sales", "Ops">>

\* ast.literal_eval on a Groups cell: the list, or SyntaxError on a blank
literal_eval(cell) ==
    CASE cell = "[]" -> [value |-> <<>>, raised |-> FALSE]
      [] cell = "['Eng']" -> [value |-> <<"Eng">>, raised |-> FALSE]
      [] OTHER -> [value |-> <<>>, raised |-> TRUE]

\* "[]" if groups_field_raw == "" else groups_field_raw
groups_field(groups_field_raw) ==
    IF groups_field_raw = "" THEN "[]" ELSE groups_field_raw

\* everything a read leaves alone
NotRead == <<email_config_json, mails, log_dir_is, archive_dir_is, operation,
             calls, apply_changes, changes_dict_orig, changes_dicts, warnings,
             written, input, remove_deleted, batch_size, create_groups,
             merge_groups, cookies, existing_ugs, all_users, ug_batch, batches,
             net, files>>

\* read_from_file(user_file, group_file) on a new reader; group_file is <<>>
\* (None) or <<file>>
InitCsv ==
    /\ pc = "read_users"
    /\ input \in {[user_file |-> u, group_file |-> g] :
                     u \in CsvFiles(UserNames),
                     g \in {<<>>} \cup {<<f>> : f \in CsvFiles(CsvGroupNames)}}
    /\ users_and_groups = UsersAndGroups
    /\ error = NoError
    /\ email_config_json = FALSE
    /\ mails = <<>>
    /\ log_dir_is = "absent"
    /\ archive_dir_is = "absent"
    /\ operation = "none"
    /\ calls = <<>>
    /\ apply_changes = TRUE
    /\ changes_dict_orig = <<>>
    /\ changes_dicts = <<>>
    /\ warnings = <<>>
    /\ written = <<>>
    /\ remove_deleted = FALSE
    /\ batch_size = -1
    /\ create_groups = FALSE
    /\ merge_groups = FALSE
    /\ cookies = <<>>
    /\ existing_ugs = <<>>
    /\ all_users = <<>>
    /\ ug_batch = <<>>
    /\ batches = <<>>
    /\ net = <<>>
    /\ files = <<>>

\* the rows of the user file read so far, and of the group file
UserRowsRead == Len(users_and_groups.users)
GroupRowsRead == Len(users_and_groups.groups)

\* one pass of "for line in csv_dict_reader" over the user file
ReadUserRow ==
    /\ pc = "read_users"
    /\ UserRowsRead < Len(input.user_file.rows)
    /\ LET line == input.user_file.rows[UserRowsRead + 1]
           parsed == literal_eval(groups_field(line.Groups))
       IN  IF UserRowsRead = 0 /\ "Name" \notin input.user_file.columns
           THEN /\ Fail("ValueError", "No column called 'Name' in CSV")
                /\ UNCHANGED users_and_groups
           ELSE IF parsed.raised
           THEN /\ Fail("SyntaxError", "invalid syntax")
                /\ UNCHANGED users_and_groups
           ELSE /\ users_and_groups' =
                       add_user(users_and_groups,
                                <<User(line.Name, parsed.value)>>,
                                RAISE_ERROR_ON_DUPLICATE).ug
                /\ UNCHANGED <<pc, error>>
    /\ UNCHANGED NotRead

\* the user file is exhausted and group_file is None
ReturnWithoutGroupFile ==
    /\ pc = "read_users"
    /\ UserRowsRead = Len(input.user_file.rows)
    /\ input.group_file = <<>>
    /\ pc' = "returned"
    /\ UNCHANGED <<NotRead, users_and_groups, error>>

\* the user file is exhausted and group_file is opened
OpenGroupFile ==
    /\ pc = "read_users"
    /\ UserRowsRead = Len(input.user_file.rows)
    /\ input.group_file # <<>>
    /\ pc' = "read_groups"
    /\ UNCHANGED <<NotRead, users_and_groups, error>>

\* one pass of "for line in g_csv_dict_reader" over the group file: the list
\* is evaluated from the cell itself, g_groups_field is computed but not used
ReadGroupRow ==
    /\ pc = "read_groups"
    /\ GroupRowsRead < Len(input.group_file[1].rows)
    /\ LET line == input.group_file[1].rows[GroupRowsRead + 1]
           g_groups_field == groups_field(line.Groups)
           parsed == literal_eval(line.Groups)
       IN  IF "Name" \notin input.group_file[1].columns
           THEN /\ Fail("ValueError", "No column called 'Name' in CSV")
                /\ UNCHANGED users_and_groups
           ELSE IF parsed.raised
           THEN /\ Fail("SyntaxError", "invalid syntax")
                /\ UNCHANGED users_and_groups
           ELSE /\ users_and_groups' =
                       add_group(users_and_groups,
                                 <<Group(line.Name, "", "", parsed.value)>>,
                                 RAISE_ERROR_ON_DUPLICATE).ug
                /\ UNCHANGED <<pc, error>>
    /\ UNCHANGED NotRead

\* the group file is exhausted: return uag
ReturnAfterGroupFile ==
    /\ pc = "read_groups"
    /\ GroupRowsRead = Len(input.group_file[1].rows)
    /\ pc' = "returned"
    /\ UNCHANGED <<NotRead, users_and_groups, error>>

NextCsv ==
    \/ ReadUserRow
    \/ ReturnWithoutGroupFile
    \/ OpenGroupFile
    \/ ReadGroupRow
    \/ ReturnAfterGroupFile

SpecCsv == InitCsv /\ [][NextCsv]_vars

\* C27: a blank Groups cell is read as an empty list, in a group row as in a
\* user row: every row read so far that has a blank cell gave an entity with
\* no group names, and no read ends in the SyntaxError of evaluating a cell.
C27_BlankGroupsCellIsEmptyList ==
    /\ pc \in {"read_users", "read_groups", "returned", "failed"}
    /\ \A i \in 1..UserRowsRead :
          input.user_file.rows[i].Groups = ""
             => users_and_groups.users[i].groupNames = <<>>
    /\ \A i \in 1..GroupRowsRead :
          input.group_file[1].rows[i].Groups = ""
             => users_and_groups.groups[i].groupNames = <<>>
    /\ ~(pc = "failed" /\ error.type = "SyntaxError")


---------------------------------------------------------------------------
(* Direct calls of the decorated operations on one client instance         *)
(* (src/tsut/api.py): api_call logs in when the instance holds no cookies, *)
(* then the operation sends its requests and tests each response's status. *)

MaxCalls == 2

\* the decorated operations of each client class
OperationsOf ==
    [SyncUsersAndGroups |->
         {"get_all_users_and_groups", "get_user_metadata",
          "_sync_users_and_groups", "delete_users", "delete_groups",
          "update_user_password"},
     SetGroupPrivilegesAPI |->
         {"get_privileges_for_group", "add_privilege", "remove_privilege"},
     TransferOwnershipApi |-> {"transfer_ownership"}]

ClientClasses == DOMAIN OperationsOf
ClientOperations == UNION {OperationsOf[c] : c \in ClientClasses}
ClassOf(o) == CHOOSE c \in ClientClasses : o \in OperationsOf[c]

\* a request, the status tested for and the text of the error raised otherwise
Step(req, expect, msg) == [req |-> req, expect |-> expect, msg |-> msg]

\* the requests of an operation, in order, each with the one status its
\* response is tested against; _sync_users_and_groups is called with a valid
\* dataset, get_all_users_and_groups with get_group_privileges=False
Steps(o) ==
    CASE o = "get_all_users_and_groups" ->
            <<Step("get_all", 200, "Error getting users and groups")>>
      [] o = "get_user_metadata" ->
            <<Step("user_metadata", 200, "Error getting user metadata")>>
      [] o = "_sync_users_and_groups" ->
            <<Step("sync", 200, "Error syncing users and groups")>>
      [] o = "delete_users" ->
            <<Step("user_metadata", 200, "Error getting users and groups"),
              Step("delete_users", 204, "Error getting users and groups")>>
      [] o = "delete_groups" ->
            <<Step("group_metadata", 200, "Error getting users and groups"),
              Step("delete_groups", 204, "Error getting groups and groups")>>
      [] o = "update_user_password" ->
            <<Step("update_password", 204, "Error updating user password")>>
      [] o = "get_privileges_for_group" ->
            <<Step("metadata_list", 200, "Error setting privileges for group"),
              Step("metadata_detail", 200, "Error setting privileges for group")>>
      [] o = "add_privilege" ->
            <<Step("add_privilege", 204, "Error adding privilege")>>
      [] o = "remove_privilege" ->
            <<Step("remove_privilege", 204, "Error removing privilege")>>
      [] o = "transfer_ownership" ->
            <<Step("transfer_ownership", 204, "Error transferring ownership")>>

\* delete_users and delete_groups return after the metadata request when
\* none of the given names is known to the service
DeleteOperations == {"delete_users", "delete_groups"}

ClientLoginStatuses == {204, 200, 401}
ResponseStatuses == {200, 204, 500}

\* a slip: the cookies of the response are stored whatever its status
CookiesAfterLoginAlwaysStored(status, old) == <<"session">>

\* login(): self.cookies = response.cookies on 204 only
CookiesAfterLogin(status, old) == IF status = 204 THEN <<"session">> ELSE old

\* a slip: every success status is accepted
AcceptedAnySuccess(status, expect) == status \in 200..299

\* if response.status_code == 200 (or 204): the one expected status
Accepted(status, expect) == status = expect

\* a slip: the wrapper logs in whether or not the instance holds cookies
LoginNeededAlways(c) == TRUE

\* if not self.is_authenticated()
LoginNeeded(c) == c = <<>>

\* the call in progress is the next of the instance
ThisCall == Len(calls) + 1

RequestsOf(reqs, k) == SelectSeq(reqs, LAMBDA r : r.during = k)

\* the requests the operation in progress has sent itself
StepsDone == Len(SelectSeq(RequestsOf(net, ThisCall), LAMBDA r : r.op # "login"))

CallEnded(o, raised) == [op |-> o, raised |-> raised]

\* everything a direct call leaves alone
NotCalled == <<email_config_json, mails, log_dir_is, archive_dir_is,
               apply_changes, changes_dict_orig, changes_dicts, warnings,
               written, input, users_and_groups, remove_deleted, batch_size,
               create_groups, merge_groups, existing_ugs, all_users, ug_batch,
               batches, files>>

\* a freshly constructed client: __init__ sets self.cookies = None
InitClient ==
    /\ pc = "idle"
    /\ cookies = <<>>
    /\ net = <<>>
    /\ calls = <<>>
    /\ operation = "none"
    /\ error = NoError
    /\ email_config_json = FALSE
    /\ mails = <<>>
    /\ log_dir_is = "absent"
    /\ archive_dir_is = "absent"
    /\ apply_changes = TRUE
    /\ changes_dict_orig = <<>>
    /\ changes_dicts = <<>>
    /\ warnings = <<>>
    /\ written = <<>>
    /\ input = UsersAndGroups
    /\ users_and_groups = input
    /\ remove_deleted = FALSE
    /\ batch_size = -1
    /\ create_groups = FALSE
    /\ merge_groups = FALSE
    /\ existing_ugs = <<>>
    /\ all_users = <<>>
    /\ ug_batch = <<>>
    /\ batches = <<>>
    /\ files = <<>>

\* the caller calls a decorated operation of the instance's class
ClientCall ==
    /\ pc = "idle"
    /\ Len(calls) < MaxCalls
    /\ \E o \in ClientOperations :
          /\ \A i \in DOMAIN calls : ClassOf(calls[i].op) = ClassOf(o)
          /\ operation' = o
    /\ pc' = "wrap"
    /\ error' = NoError
    /\ UNCHANGED <<NotCalled, cookies, net, calls>>

\* api_call on an instance without cookies: login(), which raises unless the
\* status is 204
WrapLogin ==
    /\ pc = "wrap"
    /\ LoginNeeded(cookies)
    /\ \E status \in ClientLoginStatuses :
          /\ net' = Append(net, Request("login", status, <<>>, ThisCall))
          /\ cookies' = CookiesAfterLogin(status, cookies)
          /\ IF status = 204
             THEN /\ pc' = "request"
                  /\ UNCHANGED <<operation, calls, error>>
             ELSE /\ pc' = "idle"
                  /\ operation' = "none"
                  /\ calls' = Append(calls, CallEnded(operation, TRUE))
                  /\ error' = RaiseWithResponse("ConnectionError",
                                  "Error logging in to TS", status, "")
    /\ UNCHANGED NotCalled

\* api_call on an instance that holds cookies: straight to the operation
WrapAuthenticated ==
    /\ pc = "wrap"
    /\ ~LoginNeeded(cookies)
    /\ pc' = "request"
    /\ UNCHANGED <<NotCalled, cookies, net, calls, operation, error>>

\* the operation sends its next request and tests the status of the response
SendRequest ==
    /\ pc = "request"
    /\ \E status \in ResponseStatuses, found \in BOOLEAN :
          LET k == StepsDone + 1
              step == Steps(operation)[k]
              last == \/ k = Len(Steps(operation))
                      \/ operation \in DeleteOperations /\ ~found
          IN  /\ net' = Append(net, Request(step.req, status, <<>>, ThisCall))
              /\ IF ~Accepted(status, step.expect)
                 THEN /\ pc' = "idle"
                      /\ operation' = "none"
                      /\ calls' = Append(calls, CallEnded(operation, TRUE))
                      /\ error' = RaiseWithResponse("ConnectionError",
                                      step.msg, status, "")
                 ELSE IF last
                 THEN /\ pc' = "idle"
                      /\ operation' = "none"
                      /\ calls' = Append(calls, CallEnded(operation, FALSE))
                      /\ UNCHANGED error
                 ELSE UNCHANGED <<pc, operation, calls, error>>
    /\ UNCHANGED <<NotCalled, cookies>>

NextClient ==
    \/ ClientCall
    \/ WrapLogin
    \/ WrapAuthenticated
    \/ SendRequest

SpecClient == InitClient /\ [][NextClient]_vars


---------------------------------------------------------------------------
(* Properties of direct calls.                                             *)

\* the status the response of a request is tested against
ExpectedStatus(req) ==
    IF req = "login" THEN 204
    ELSE LET hit == {s \in UNION {Range(Steps(o)) : o \in ClientOperations} :
                        s.req = req}
         IN  (CHOOSE s \in hit : TRUE).expect

\* the operations the core consumes as collaborators
CollaboratorOperations ==
    {"get_all_users_and_groups", "delete_users", "delete_groups",
     "update_user_password"}

\* C22: an operation's request is sent only by an instance that holds a
\* session: a successful login precedes every request that is not a login,
\* and no login request follows a successful login of the instance.
C22_RequestsNeedSessionLoginOnce ==
    /\ \A i \in DOMAIN net :
          net[i].op # "login"
             => \E j \in 1..(i - 1) : net[j].op = "login" /\ net[j].status = 204
    /\ \A i, j \in DOMAIN net :
          (i < j /\ net[i].op = "login" /\ net[i].status = 204)
             => net[j].op # "login"
    /\ (pc = "request") => cookies # <<>>

\* two calls have ended on an instance that logged in during the first: the
\* second sent its request without a login
C22_Witness ==
    /\ Len(calls) = 2
    /\ \E i \in DOMAIN net :
          /\ net[i].op = "login" /\ net[i].status = 204 /\ net[i].during = 1
    /\ \E i \in DOMAIN net : net[i].op # "login" /\ net[i].during = 2
    /\ \A i \in DOMAIN net : net[i].during = 2 => net[i].op # "login"

\* C30: a login answered with a status other than 204 ends the call with a
\* connection error and is the call's only request; the instance holds no
\* cookies afterwards, and the next request of the instance is a login again.
C30_FailedLoginLeavesUnauthenticated ==
    \A i \in DOMAIN net :
       (net[i].op = "login" /\ net[i].status # 204)
          => /\ RequestsOf(net, net[i].during) = <<net[i]>>
             /\ net[i].during \in DOMAIN calls
             /\ calls[net[i].during].raised
             /\ i < Len(net) => /\ net[i + 1].op = "login"
                                /\ net[i + 1].during > net[i].during
             /\ i = Len(net) => /\ cookies = <<>>
                                /\ pc \in {"idle", "wrap"}
                                /\ (pc = "idle") =>
                                      /\ error.type = "ConnectionError"
                                      /\ error.msg = "Error logging in to TS"

\* a call failed at its login and the next call of the instance logged in
C30_Witness ==
    /\ Len(net) >= 2
    /\ net[1].op = "login" /\ net[1].status # 204
    /\ net[2].op = "login" /\ net[2].during = 2
    /\ calls # <<>> /\ calls[1].raised

\* C24 as stated: a collaborator operation that has ended after a response
\* to a request of its own raised exactly when that response was not a 2xx.
C24_RaisesExactlyOnNon2xx ==
    \A k \in DOMAIN calls :
       LET sent == RequestsOf(net, k)
       IN  (calls[k].op \in CollaboratorOperations /\ sent[Len(sent)].op # "login")
              => (calls[k].raised <=> sent[Len(sent)].status \notin 200..299)

\* C24: a collaborator operation that has ended raised exactly when the last
\* response it received did not carry the one status expected of that
\* request (204 for the login and for a POST, 200 for a GET); every earlier
\* response of the call carried its expected status, so nothing is sent
\* after the response that made the call raise.
C24_RaisesExactlyOnUnexpectedStatus ==
    \A k \in DOMAIN calls :
       calls[k].op \in CollaboratorOperations
          => LET sent == RequestsOf(net, k)
             IN  /\ sent # <<>>
                 /\ calls[k].raised <=>
                       sent[Len(sent)].status # ExpectedStatus(sent[Len(sent)].op)
                 /\ \A i \in 1..(Len(sent) - 1) :
                       sent[i].status = ExpectedStatus(sent[i].op)

\* delete_users raised at its second request, after the metadata request was
\* answered 200, on a 2xx status that is not 204
C24_Witness ==
    \E k \in DOMAIN calls :
       /\ calls[k].op = "delete_users"
       /\ calls[k].raised
       /\ LET sent == RequestsOf(net, k)
          IN  /\ sent[Len(sent)].op = "delete_users"
              /\ sent[Len(sent)].status = 200


---------------------------------------------------------------------------
(* Runs that follow one another on one SyncUsersAndGroups instance: the    *)
(* instance holds tsurl, username, password, cookies and session, nothing  *)
(* about the runs it made.                                                 *)

\* a run that has ended, and the number of requests sent when it ended
RunEnded(raised, sent) ==
    [op |-> "sync_users_and_groups", raised |-> raised, sent |-> sent]

\* a slip: the session is dropped when a run ends
CookiesOfInstanceForgotten(c) == <<>>

\* self.cookies between two calls: no method but login assigns it
CookiesOfInstance(c) == c

\* runs that apply the changes of a dataset of at most one user and no group,
\* unbatched or in batches of one, without remove_deleted and merge_groups
InitRerun ==
    /\ InitRun
    /\ Len(input.users) <= 1
    /\ input.groups = <<>>
    /\ batch_size \in {-1, 1}
    /\ apply_changes
    /\ ~remove_deleted
    /\ ~merge_groups
    /\ email_config_json = FALSE
    /\ log_dir_is = "absent"
    /\ archive_dir_is = "absent"
    /\ operation = "none"
    /\ calls = <<>>

\* the caller calls sync_users_and_groups again on the instance whose run has
\* ended, with the same arguments: the locals of the call are new, the
\* attributes of the instance are as the ended run left them
CallAgain ==
    /\ pc \in {"done", "failed"}
    /\ Len(calls) + 1 < MaxCalls
    /\ calls' = Append(calls, RunEnded(pc = "failed", Len(net)))
    /\ pc' = "call"
    /\ error' = NoError
    /\ users_and_groups' = input
    /\ existing_ugs' = <<>>
    /\ all_users' = <<>>
    /\ ug_batch' = <<>>
    /\ cookies' = CookiesOfInstance(cookies)
    /\ NothingRecorded
    /\ UNCHANGED <<Dirs, Options, operation, batches, net, files>>

NextRerun ==
    \/ CheckOptions
    \/ Login
    \/ GetAllUsersAndGroups
    \/ Assemble
    \/ StartBatching
    \/ NextBatch
    \/ EndBatching
    \/ SyncAll
    \/ SyncInvalid
    \/ SyncPost
    \/ SyncTransportError
    \/ CallAgain

SpecRerun == InitRerun /\ [][NextRerun]_vars

\* C23 as stated: once a run on the instance has ended, the instance sends
\* no sync request any more.
C23_NoSubmissionAfterRunEnded ==
    \A k \in DOMAIN calls :
       \A i \in DOMAIN net : i > calls[k].sent => net[i].op # "sync"

\* C23: the terminal states are final for the call only.  From a run that
\* has ended the one step is a new call on the same instance: it sends and
\* writes nothing by itself and finds the session of the ended run, so the
\* instance can start another submission.
C23_TerminalFinalPerCall ==
    [][(pc = "done" \/ pc = "failed")
          => (pc' = "call" /\ net' = net /\ files' = files
                 /\ batches' = batches /\ cookies' = cookies)]_vars

\* a second run on the instance submitted, on the session of the first
C23_Witness ==
    /\ calls # <<>>
    /\ \E i \in DOMAIN net : i > calls[1].sent /\ net[i].op = "sync"
    /\ \A i \in DOMAIN net : i > calls[1].sent => net[i].op # "login"

=============================================================================
